---- MODULE Spec2Model ----
(***************************************************************************)
(* Model of server.py: the dyslexia screening server.                      *)
(*                                                                         *)
(* Texts are sequences of one-character strings, so that lower-casing,     *)
(* tokenization, reversal and substring tests are computed character by    *)
(* character.  Scores are exact rationals [num, den]: every penalty in     *)
(* the source is a whole number (3.0, 4.0) and the only division is the    *)
(* final one by the token count.                                           *)
(***************************************************************************)
EXTENDS Integers, Sequences, FiniteSets, TLC

VARIABLES
    globals,        \* module-level objects: english_vocab, the two confusion tables, TEST_SENTENCES
    punkt_loaded,   \* whether the punkt tokenizer data is available to word_tokenize
    vocab_loaded,   \* whether the words corpus could be read at start-up
    reports,        \* files under static/reports: path -> "absent" | "partial" | "complete"
    now,            \* the clock, in seconds (datetime.now())
    request,        \* the request being handled (NoRequest when idle)
    fault,          \* the step of the handler that raises while this request is handled
    response,       \* the answer to the last handled request (NoResponse while pending)
    result          \* the value returned by a direct call of a scoring function

vars == << globals, punkt_loaded, vocab_loaded, reports, now, request, fault, response, result >>

-----------------------------------------------------------------------------
(* Bounds of the model                                                     *)

\* lexeme/separator units in a generated input text
MaxWords == 3

\* length of the score list of a generate_report request
MaxScores == 4

\* last second the clock reaches
MaxClock == 1

-----------------------------------------------------------------------------
(* Shapes of the values that are passed around                             *)

\* The outcome of a call: a returned value, or an exception
Returned(v) == [raised |-> FALSE, value |-> v]
Raised == [raised |-> TRUE, value |-> << >>]

\* A rational number num/den
Rational(num, den) == [num |-> num, den |-> den]

\* A JSON number of a request, and a JSON value that is no number
Number(n) == [num |-> n, den |-> 1, kind |-> "number"]
NotANumber == [num |-> 0, den |-> 1, kind |-> "string"]

\* The JSON bodies of the requests; NoRequest when no request is being handled
NoRequest == [route |-> "none"]
GetSentenceRequest == [route |-> "get_sentence"]
AnalyzeRequest(userText, sentence) ==
   [route |-> "analyze_response", userText |-> userText, sentence |-> sentence]
ReportRequest(userName, userId, responses, scores) ==
   [route |-> "generate_report", userName |-> userName, userId |-> userId,
    responses |-> responses, scores |-> scores]

\* jsonify(body), status
HttpResponse(status, body) == [status |-> status, body |-> body]
ScoreBody(score) == [score |-> score, isValid |-> TRUE]
ReportBody(avgScore, verdict, pdfPath) ==
   [avgScore |-> avgScore, verdict |-> verdict, pdfPath |-> pdfPath]
ErrorBody(error) == [error |-> error]
SentenceBody(sentence) == [sentence |-> sentence]

\* What a route leaves behind: the module globals, the files, the response
Outcome(g, files, resp) == [globals |-> g, reports |-> files, response |-> resp]

\* user_data of generate_final_report
UserData(name, id) == [name |-> name, id |-> id]

\* The value a direct call of function fn returned
CallResult(fn, out) == [fn |-> fn, out |-> out]

\* What generate_pdf_report leaves behind: the files, and the name it returns
Rendered(files, filename) == [reports |-> files, filename |-> filename]

-----------------------------------------------------------------------------
(* Program constants and tables                                            *)

\* DYSLEXIA_SCORE_THRESHOLD = 3.5
DYSLEXIA_SCORE_THRESHOLD == Rational(35, 10)

MAX_ATTEMPTS == 3

DYSLEXIC_LETTER_CONFUSIONS ==
   << <<"b", "d">>, <<"p", "q">>, <<"m", "w">>, <<"n", "u">>, <<"n", "r">>,
      <<"i", "j">>, <<"a", "e">>, <<"s", "z">>, <<"f", "t">>, <<"c", "k">>,
      <<"g", "q">>, <<"h", "n">>, <<"v", "w">>, <<"b", "p">>, <<"c", "s">>,
      <<"d", "t">>, <<"o", "e">>, <<"a", "o">>, <<"u", "v">>, <<"m", "n">> >>

DYSLEXIC_WORD_CONFUSIONS ==
   <<
      << <<"w", "a", "s">>, <<"s", "a", "w">> >>,
      << <<"t", "h", "e", "r", "e">>, <<"t", "h", "e", "i", "r">> >>,
      << <<"h", "e", "r", "e">>, <<"h", "e", "a", "r">> >>,
      << <<"y", "o", "u">>, <<"y", "o", "u", "r">> >>,
      << <<"w", "h", "e", "r", "e">>, <<"w", "e", "a", "r">> >>,
      << <<"t", "o">>, <<"t", "o", "o">>, <<"t", "w", "o">> >>,
      << <<"h", "e", "r", "e">>, <<"h", "e", "r", "e">> >>,
      << <<"t", "h", "e", "i", "r">>, <<"t", "h", "e", "r", "e">> >>,
      << <<"i", "t", "s">>, <<"i", "t", "'", "s">> >>,
      << <<"w", "h", "e", "r", "e">>, <<"w", "e", "r", "e">> >>,
      << <<"n", "e", "w">>, <<"k", "n", "e", "w">> >>,
      << <<"y", "o", "u", "r">>, <<"y", "o", "u", "'", "r", "e">> >>,
      << <<"b", "r", "e", "a", "k">>, <<"b", "r", "a", "k", "e">> >>,
      << <<"b", "a", "r", "e">>, <<"b", "e", "a", "r">> >>,
      << <<"p", "e", "a", "c", "e">>, <<"p", "i", "e", "c", "e">> >>,
      << <<"r", "i", "g", "h", "t">>, <<"w", "r", "i", "t", "e">> >>,
      << <<"f", "l", "o", "w", "e", "r">>, <<"f", "l", "o", "u", "r">> >>,
      << <<"b", "u", "y">>, <<"b", "y">>, <<"b", "y", "e">> >>,
      << <<"n", "o">>, <<"k", "n", "o", "w">> >>,
      << <<"f", "o", "r">>, <<"f", "o", "u", "r">> >>,
      << <<"s", "u", "n">>, <<"s", "o", "n">> >>,
      << <<"a", "l", "l", "o", "w", "e", "d">>, <<"a", "l", "o", "u", "d">> >>,
      << <<"h", "o", "u", "r">>, <<"o", "u", "r">> >>,
      << <<"b", "l", "e", "w">>, <<"b", "l", "u", "e">> >>
   >>

TEST_SENTENCES ==
   << "The quick brown fox jumps over the lazy dog.",
      "She sells seashells by the seashore.",
      "How vexingly quick daft zebras jump.",
      "Pack my box with five dozen liquor jugs.",
      "The five boxing wizards jump quickly.",
      "Two driven jocks help fax my big quiz.",
      "The job requires extra pluck and zeal.",
      "Two golden apples lay upon the table.",
      "A blue butterfly rested on the flower.",
      "The sunset created beautiful colors." >>

\* A sample of the words corpus: the entries of nltk's word list among the
\* words the inputs below are made of.
NltkWords ==
   { <<"c", "a", "t">>, <<"m", "a", "t">>, <<"s", "a", "t">>, <<"b", "a", "d">>,
     <<"t", "h", "e", "r", "e">>, <<"h", "e", "r", "e">> }

\* english_vocab as lines 35-40 build it: the corpus, or the empty set when
\* loading failed.
LoadVocabulary(loaded) == IF loaded THEN NltkWords ELSE {}

ModuleGlobals(loaded) ==
   [ DYSLEXIC_LETTER_CONFUSIONS |-> DYSLEXIC_LETTER_CONFUSIONS,
     DYSLEXIC_WORD_CONFUSIONS |-> DYSLEXIC_WORD_CONFUSIONS,
     TEST_SENTENCES |-> TEST_SENTENCES,
     english_vocab |-> LoadVocabulary(loaded) ]

-----------------------------------------------------------------------------
(* Characters and strings                                                  *)

LowerLetters ==
   { "a", "b", "c", "d", "e", "f", "g", "h", "i", "j", "k", "l", "m",
     "n", "o", "p", "q", "r", "s", "t", "u", "v", "w", "x", "y", "z" }
UpperLetters == { "C", "T" }
Digits == { "0", "1", "2", "3", "4", "5", "6", "7", "8", "9" }
Whitespace == { " " }
Punctuation == { "!" }

\* str.lower(), per character
LowerChar(ch) == CASE ch = "C" -> "c" [] ch = "T" -> "t" [] OTHER -> ch

str_lower(text) == [i \in 1..Len(text) |-> LowerChar(text[i])]

\* str.isalnum(): non-empty and every character a letter or a digit
str_isalnum(w) ==
   /\ Len(w) > 0
   /\ \A i \in 1..Len(w) : w[i] \in LowerLetters \cup UpperLetters \cup Digits

\* w[::-1]
str_reverse(w) == [i \in 1..Len(w) |-> w[Len(w) + 1 - i]]

\* ch in w, for a one-character ch
str_contains(w, ch) == \E i \in 1..Len(w) : w[i] = ch

RECURSIVE LStrip(_)
LStrip(text) ==
   IF text # << >> /\ Head(text) \in Whitespace THEN LStrip(Tail(text)) ELSE text

RECURSIVE RStrip(_)
RStrip(text) ==
   IF text # << >> /\ text[Len(text)] \in Whitespace
   THEN RStrip(SubSeq(text, 1, Len(text) - 1))
   ELSE text

\* str.strip()
str_strip(text) == RStrip(LStrip(text))

\* Appends the word being read to the list of words, when it is not empty.
Flush(words, cur) == IF cur = << >> THEN words ELSE Append(words, cur)

\* str.split(): the maximal runs of non-whitespace characters
RECURSIVE SplitFrom(_, _, _)
SplitFrom(text, words, cur) ==
   IF text = << >> THEN Flush(words, cur)
   ELSE IF Head(text) \in Whitespace
        THEN SplitFrom(Tail(text), Flush(words, cur), << >>)
        ELSE SplitFrom(Tail(text), words, Append(cur, Head(text)))

str_split(text) == SplitFrom(text, << >>, << >>)

-----------------------------------------------------------------------------
\* The int 0 of "return 0", as a rational
Zero == Rational(0, 1)

-----------------------------------------------------------------------------
(* tokenize_and_clean_text                                                 *)

\* nltk's tokenizer on lower-cased text over letters, digits, blanks and
\* "!": words are separated at blanks, and every "!" is a token of its own.
RECURSIVE TreebankFrom(_, _, _)
TreebankFrom(text, words, cur) ==
   IF text = << >> THEN Flush(words, cur)
   ELSE IF Head(text) \in Whitespace
        THEN TreebankFrom(Tail(text), Flush(words, cur), << >>)
        ELSE IF Head(text) \in Punctuation
             THEN TreebankFrom(Tail(text), Append(Flush(words, cur), << Head(text) >>), << >>)
             ELSE TreebankFrom(Tail(text), words, Append(cur, Head(text)))

\* word_tokenize raises LookupError when the punkt data is missing.
word_tokenize(text) ==
   IF punkt_loaded THEN Returned(TreebankFrom(text, << >>, << >>)) ELSE Raised

tokenize_and_clean_text_nofilter(text) ==
   LET words == word_tokenize(str_lower(text))
   IN  IF words.raised THEN Returned(str_split(str_lower(text))) ELSE Returned(words.value)

tokenize_and_clean_text(text) ==
   LET words == word_tokenize(str_lower(text))
   IN  IF ~words.raised
       THEN Returned(SelectSeq(words.value, str_isalnum))
       ELSE Returned(str_split(str_lower(text)))

-----------------------------------------------------------------------------
(* calculate_word_dyslexia_score                                           *)

\* lines 121-122
unknown_word_penalty_inverted(G, word_token) ==
   IF word_token \in G.english_vocab THEN 3 ELSE 0

unknown_word_penalty(G, word_token) ==
   IF word_token \notin G.english_vocab THEN 3 ELSE 0

\* lines 125-127: the loop over the letter pairs, from pair i on
RECURSIVE letter_confusion_from(_, _, _)
letter_confusion_from(G, word_token, i) ==
   IF i > Len(G.DYSLEXIC_LETTER_CONFUSIONS) THEN 0
   ELSE LET conf_pair == G.DYSLEXIC_LETTER_CONFUSIONS[i]
        IN  (IF str_contains(word_token, conf_pair[1]) /\ str_contains(word_token, conf_pair[2])
             THEN 3 ELSE 0)
            + letter_confusion_from(G, word_token, i + 1)

letter_confusion_penalty(G, word_token) == letter_confusion_from(G, word_token, 1)

\* word_token in conf_group
in_group(word_token, conf_group) ==
   \E j \in 1..Len(conf_group) : conf_group[j] = word_token

\* lines 130-132: the loop over the word groups, from group i on
RECURSIVE word_confusion_from(_, _, _)
word_confusion_from(G, word_token, i) ==
   IF i > Len(G.DYSLEXIC_WORD_CONFUSIONS) THEN 0
   ELSE (IF in_group(word_token, G.DYSLEXIC_WORD_CONFUSIONS[i]) THEN 4 ELSE 0)
        + word_confusion_from(G, word_token, i + 1)

word_confusion_first_match(G, word_token) ==
   IF \E i \in 1..Len(G.DYSLEXIC_WORD_CONFUSIONS) :
         in_group(word_token, G.DYSLEXIC_WORD_CONFUSIONS[i])
   THEN 4 ELSE 0

word_confusion_penalty(G, word_token) == word_confusion_from(G, word_token, 1)

reversal_penalty_any(word_token, sentence_tokens) ==
   IF \E i \in 1..Len(sentence_tokens) : str_reverse(word_token) = sentence_tokens[i]
   THEN 3 ELSE 0

\* lines 135-136
reversal_penalty(word_token, sentence_tokens) ==
   IF str_reverse(word_token) = sentence_tokens[1] THEN 3 ELSE 0

\* lines 118-136: token_score of one token
token_score(G, word_token, sentence_tokens) ==
   unknown_word_penalty(G, word_token)
   + letter_confusion_penalty(G, word_token)
   + word_confusion_penalty(G, word_token)
   + reversal_penalty(word_token, sentence_tokens)

\* lines 117-138: dyslexia_score after the loop over word_tokens
RECURSIVE dyslexia_score_from(_, _, _, _)
dyslexia_score_from(G, word_tokens, sentence_tokens, dyslexia_score) ==
   IF word_tokens = << >> THEN dyslexia_score
   ELSE dyslexia_score_from(G, Tail(word_tokens), sentence_tokens,
                            dyslexia_score + token_score(G, Head(word_tokens), sentence_tokens))

mean_undivided(dyslexia_score, word_tokens) == Rational(dyslexia_score, 1)

\* line 140
mean(dyslexia_score, word_tokens) == Rational(dyslexia_score, Len(word_tokens))

\* lines 110-140: the body of the try block
score_try(G, word, reference_sentence) ==
   LET word_tokens == IF fault = "tokenize_word" THEN Raised
                      ELSE tokenize_and_clean_text(word)
       sentence_tokens == IF fault = "tokenize_sentence" THEN Raised
                          ELSE tokenize_and_clean_text(reference_sentence)
   IN  IF word_tokens.raised \/ sentence_tokens.raised THEN Raised
       ELSE IF word_tokens.value = << >> \/ sentence_tokens.value = << >> THEN Returned(Zero)
       ELSE IF fault \in {"vocab_lookup", "table_scan", "reversal", "division"} THEN Raised
       ELSE Returned(mean(dyslexia_score_from(G, word_tokens.value, sentence_tokens.value, 0),
                          word_tokens.value))

score_reraise(G, word, reference_sentence) == score_try(G, word, reference_sentence)

\* lines 109-143, reading the module globals G
score_in(G, word, reference_sentence) ==
   LET tried == score_try(G, word, reference_sentence)
   IN  IF tried.raised THEN Returned(Zero) ELSE tried

calculate_word_dyslexia_score(word, reference_sentence) ==
   score_in(globals, word, reference_sentence)

-----------------------------------------------------------------------------
(* Rational arithmetic for scores                                          *)

RatAdd(a, b) == Rational(a.num * b.den + b.num * a.den, a.den * b.den)
RatDiv(a, n) == Rational(a.num, a.den * n)
RatGeq(a, b) == a.num * b.den >= b.num * a.den
RatEq(a, b) == a.num * b.den = b.num * a.den

\* sum(scores): raises TypeError on an element that is no number
RECURSIVE py_sum_from(_, _)
py_sum_from(scores, acc) ==
   IF scores = << >> THEN Returned(acc)
   ELSE IF Head(scores).kind # "number" THEN Raised
   ELSE py_sum_from(Tail(scores), RatAdd(acc, Rational(Head(scores).num, Head(scores).den)))

py_sum(scores) == py_sum_from(scores, Zero)

-----------------------------------------------------------------------------
(* Inputs                                                                  *)

Lexemes ==
   { << >>, <<"c", "a", "t">>, <<"T", "a", "c">>, <<"b", "a", "d", "e">>,
     <<"t", "h", "e", "r", "e">>, <<"w", "a", "s">>, <<"w", "a", "s", "!">>, <<"!">> }

\* The texts made of at most n lexemes, each followed by a blank
RECURSIVE TextsUpTo(_)
TextsUpTo(n) ==
   IF n = 0 THEN { << >> }
   ELSE LET shorter == TextsUpTo(n - 1)
        IN  shorter \cup { t \o l \o <<" ">> : t \in shorter, l \in Lexemes }

Texts == TextsUpTo(MaxWords)

\* Reference sentences: "", "Cat sat", "mat cat", "!cat"
RefTexts ==
   { << >>,
     <<"C", "a", "t", " ", "s", "a", "t">>,
     <<"m", "a", "t", " ", "c", "a", "t">>,
     <<"!", "c", "a", "t">> }

\* Texts of analyze_response requests: "", " ", " cat", "Tac ", "there!", "bad bad"
AnalyzeTexts ==
   { << >>,
     <<" ">>,
     <<" ", "c", "a", "t">>,
     <<"T", "a", "c", " ">>,
     <<"t", "h", "e", "r", "e", "!">>,
     <<"b", "a", "d", " ", "b", "a", "d">> }

\* Reference sentences of analyze_response requests: "", "Cat sat ", "mat cat"
AnalyzeSentences ==
   { << >>,
     <<"C", "a", "t", " ", "s", "a", "t", " ">>,
     <<"m", "a", "t", " ", "c", "a", "t">> }

Faults == { "none", "request_json" }
ScoringFaults ==
   { "tokenize_word", "tokenize_sentence", "vocab_lookup", "table_scan", "reversal", "division" }
RenderFaults == { "filename", "draw", "save_open", "save_write" }

UserNames == { "amy" }
ScoreValues == { Number(2), Number(5) }

RECURSIVE SeqsUpTo(_, _)
SeqsUpTo(S, n) ==
   IF n = 0 THEN { << >> }
   ELSE LET shorter == SeqsUpTo(S, n - 1)
        IN  shorter \cup { Append(q, x) : q \in shorter, x \in S }

ScoreLists ==
   SeqsUpTo(ScoreValues, MaxScores)
   \cup { << Number(1), Number(1), Number(1) >>, << Number(2), NotANumber >> }

ResponseList(n) == [i \in 1..n |-> "cat"]

Paths == UserNames \X (0..MaxClock)

NoResponse == HttpResponse(0, ErrorBody("none"))
NoResult == CallResult("none", Returned(<< >>))

-----------------------------------------------------------------------------
(* generate_pdf_report                                                     *)

None == << >>

Min(a, b) == IF a <= b THEN a ELSE b

Positive == "Likelihood of dyslexia detected."
Negative == "No significant signs of dyslexia detected."

verdict_strict(avg_score) ==
   IF ~RatGeq(DYSLEXIA_SCORE_THRESHOLD, avg_score) THEN Positive ELSE Negative

\* lines 191 and 263
verdict_of(avg_score) ==
   IF RatGeq(avg_score, DYSLEXIA_SCORE_THRESHOLD) THEN Positive ELSE Negative

\* The file the canvas is saved to: dyslexia_report_<name>_<timestamp>.pdf
report_filename(user_data) == << user_data.name, now >>

pdf_path_on_failure(user_data, responses, scores) ==
   LET filename == report_filename(user_data)
   IN  IF fault = "save_write"
       THEN Rendered([reports EXCEPT ![filename] = "partial"], filename)
       ELSE IF fault \in {"filename", "draw", "save_open"}
            THEN Rendered(reports, filename)
            ELSE Rendered([reports EXCEPT ![filename] = "complete"], filename)

\* lines 157-203: the file name returned (None after an exception) and the
\* files on disk afterwards
generate_pdf_report(user_data, responses, scores) ==
   LET filename == report_filename(user_data)
       drawn == Min(Len(responses), Len(scores))
   IN  IF fault = "filename" THEN Rendered(reports, None)
       ELSE IF fault = "draw" THEN Rendered(reports, None)
       ELSE IF \E i \in 1..drawn : scores[i].kind # "number" THEN Rendered(reports, None)
       ELSE IF scores # << >> /\ py_sum(scores).raised THEN Rendered(reports, None)
       ELSE IF fault = "save_open" THEN Rendered(reports, None)
       ELSE IF fault = "save_write"
            THEN Rendered([reports EXCEPT ![filename] = "partial"], None)
       ELSE Rendered([reports EXCEPT ![filename] = "complete"], filename)

-----------------------------------------------------------------------------
(* Flask routes: each yields the response and the state it leaves          *)

Reply(status, body) == Outcome(globals, reports, HttpResponse(status, body))

\* lines 216-222; choice is the index random.choice draws
get_sentence(choice) == Reply(200, SentenceBody(globals.TEST_SENTENCES[choice]))

analyze_response_caching ==
   LET user_text == str_strip(request.userText)
       score == calculate_word_dyslexia_score(user_text, str_strip(request.sentence))
       tokens == tokenize_and_clean_text(user_text).value
   IN  Outcome([globals EXCEPT !.english_vocab = @ \cup {tokens[i] : i \in 1..Len(tokens)}],
               reports, HttpResponse(200, ScoreBody(score.value)))

\* lines 225-243
analyze_response ==
   IF fault = "request_json" THEN Reply(500, ErrorBody("Error processing response"))
   ELSE LET user_text == str_strip(request.userText)
            reference_sentence == str_strip(request.sentence)
        IN  IF user_text = << >> \/ reference_sentence = << >>
            THEN Reply(200, ErrorBody("Invalid input"))
            ELSE LET score == calculate_word_dyslexia_score(user_text, reference_sentence)
                 IN  IF score.raised
                     THEN Reply(500, ErrorBody("Error processing response"))
                     ELSE Reply(200, ScoreBody(score.value))

\* lines 246-277
generate_final_report ==
   IF fault = "request_json" THEN Reply(500, ErrorBody("Error generating report"))
   ELSE LET user_data == UserData(request.userName, request.userId)
            responses == request.responses
            scores == request.scores
        IN  IF responses = << >> \/ scores = << >>
            THEN Reply(200, ErrorBody("Insufficient data"))
            ELSE LET total == py_sum(scores)
                 IN  IF total.raised
                     THEN Reply(500, ErrorBody("Error generating report"))
                     ELSE LET avg_score == RatDiv(total.value, Len(scores))
                              verdict == verdict_of(avg_score)
                              pdf == generate_pdf_report(user_data, responses, scores)
                          IN  IF pdf.filename = None
                              THEN Outcome(globals, pdf.reports,
                                           HttpResponse(500, ErrorBody("Error generating PDF report")))
                              ELSE Outcome(globals, pdf.reports,
                                           HttpResponse(200, ReportBody(avg_score, verdict,
                                                                        pdf.filename)))

-----------------------------------------------------------------------------
(* The server                                                              *)

Init ==
   /\ vocab_loaded \in BOOLEAN
   /\ punkt_loaded \in BOOLEAN
   /\ globals = ModuleGlobals(vocab_loaded)
   /\ reports = [p \in Paths |-> "absent"]
   /\ now = 0
   /\ request = NoRequest
   /\ fault = "none"
   /\ response = NoResponse
   /\ result = NoResult

Idle == request.route = "none" /\ response.status = 0

Arrive(req, f) ==
   /\ Idle
   /\ request' = req
   /\ fault' = f
   /\ response' = NoResponse
   /\ UNCHANGED << globals, punkt_loaded, vocab_loaded, reports, now, result >>

ReceiveGetSentence == Arrive(GetSentenceRequest, "none")

ReceiveAnalyze ==
   \E userText \in AnalyzeTexts, sentence \in AnalyzeSentences, f \in Faults \cup ScoringFaults :
      Arrive(AnalyzeRequest(userText, sentence), f)

ReceiveReport ==
   \E userName \in UserNames, scores \in ScoreLists, f \in Faults \cup RenderFaults :
      \E n \in {0, 1, Len(scores)} :
         Arrive(ReportRequest(userName, "7", ResponseList(n), scores), f)

Answer(done) ==
   /\ response' = done.response
   /\ globals' = done.globals
   /\ reports' = done.reports
   /\ UNCHANGED << punkt_loaded, vocab_loaded, now, request, fault, result >>

HandleGetSentence ==
   /\ request.route = "get_sentence"
   /\ response.status = 0
   /\ \E choice \in 1..Len(globals.TEST_SENTENCES) : Answer(get_sentence(choice))

HandleAnalyze ==
   /\ request.route = "analyze_response"
   /\ response.status = 0
   /\ Answer(analyze_response)

HandleReport ==
   /\ request.route = "generate_report"
   /\ response.status = 0
   /\ Answer(generate_final_report)

\* The response reaches the client and the request's scope ends.
Send ==
   /\ response.status # 0
   /\ request' = NoRequest
   /\ fault' = "none"
   /\ response' = NoResponse
   /\ UNCHANGED << globals, punkt_loaded, vocab_loaded, reports, now, result >>

Tick ==
   /\ Idle
   /\ now < MaxClock
   /\ now' = now + 1
   /\ UNCHANGED << globals, punkt_loaded, vocab_loaded, reports, request, fault, response, result >>

Next ==
   \/ ReceiveGetSentence
   \/ ReceiveAnalyze
   \/ ReceiveReport
   \/ HandleGetSentence
   \/ HandleAnalyze
   \/ HandleReport
   \/ Send
   \/ Tick

Spec == Init /\ [][Next]_vars

-----------------------------------------------------------------------------
(* The scoring functions, called directly on generated inputs              *)

InitScorer ==
   /\ vocab_loaded \in BOOLEAN
   /\ punkt_loaded \in BOOLEAN
   /\ globals = ModuleGlobals(vocab_loaded)
   /\ reports = [p \in Paths |-> "absent"]
   /\ now = 0
   /\ \E word \in Texts, reference_sentence \in RefTexts :
         request = AnalyzeRequest(word, reference_sentence)
   /\ fault = "none"
   /\ response = NoResponse
   /\ result = NoResult

CallTokenize ==
   /\ result.fn = "none"
   /\ result' = CallResult("tokenize_and_clean_text",
                         tokenize_and_clean_text(request.userText))
   /\ UNCHANGED << globals, punkt_loaded, vocab_loaded, reports, now, request, fault, response >>

CallScore ==
   /\ result.fn = "none"
   /\ result' = CallResult("calculate_word_dyslexia_score",
                         calculate_word_dyslexia_score(request.userText, request.sentence))
   /\ UNCHANGED << globals, punkt_loaded, vocab_loaded, reports, now, request, fault, response >>

NextScorer ==
   \/ CallTokenize
   \/ CallScore

SpecScorer == InitScorer /\ [][NextScorer]_vars

-----------------------------------------------------------------------------
(* Properties of the scoring functions (under SpecScorer)                  *)

RECURSIVE SumOf(_)
SumOf(ints) == IF ints = << >> THEN 0 ELSE Head(ints) + SumOf(Tail(ints))

Scored == result.fn = "calculate_word_dyslexia_score"
Tokenized == result.fn = "tokenize_and_clean_text"

\* The token sequences of the response and of the reference of the call
WordTokens == tokenize_and_clean_text(request.userText).value
SentenceTokens == tokenize_and_clean_text(request.sentence).value

\* The letter pairs whose two letters both occur in t
PairsIn(t) ==
   { i \in 1..Len(DYSLEXIC_LETTER_CONFUSIONS) :
        /\ \E k \in 1..Len(t) : t[k] = DYSLEXIC_LETTER_CONFUSIONS[i][1]
        /\ \E k \in 1..Len(t) : t[k] = DYSLEXIC_LETTER_CONFUSIONS[i][2] }

\* The word-confusion groups that contain t
GroupsWith(t) ==
   { i \in 1..Len(DYSLEXIC_WORD_CONFUSIONS) :
        \E j \in 1..Len(DYSLEXIC_WORD_CONFUSIONS[i]) : DYSLEXIC_WORD_CONFUSIONS[i][j] = t }

IsReverseOf(t, u) == Len(t) = Len(u) /\ \A k \in 1..Len(t) : t[k] = u[Len(u) + 1 - k]

C1_Penalty(t) ==
   (IF t \in globals.english_vocab THEN 0 ELSE 3)
   + 3 * Cardinality(PairsIn(t))
   + 4 * Cardinality(GroupsWith(t))
   + (IF IsReverseOf(t, SentenceTokens[1]) THEN 3 ELSE 0)

\* C1: the score is 0 when the response or the reference has no token, and
\* otherwise it is exactly the sum over the response tokens of (3 if the
\* token is not in the vocabulary, 3 per letter pair with both letters in
\* the token, 4 per word-confusion group containing the token, 3 if the
\* reversed token is the first reference token) divided by the number of
\* response tokens; it is never negative.
C1_ScoreIsMeanPenalty ==
   Scored =>
      /\ ~result.out.raised
      /\ result.out.value.num >= 0
      /\ result.out.value.den > 0
      /\ IF WordTokens = << >> \/ SentenceTokens = << >>
         THEN result.out.value.num = 0
         ELSE /\ result.out.value.num =
                    SumOf([i \in 1..Len(WordTokens) |-> C1_Penalty(WordTokens[i])])
              /\ result.out.value.den = Len(WordTokens)

\* A scored response of two tokens with a letter-pair, a word-group and an
\* unknown-word penalty among them
C1_Witness ==
   /\ Scored
   /\ Len(WordTokens) = 2
   /\ SentenceTokens # << >>
   /\ \E i \in 1..2 : Cardinality(PairsIn(WordTokens[i])) = 2
   /\ \E i \in 1..2 : GroupsWith(WordTokens[i]) # {}
   /\ \E i \in 1..2 : WordTokens[i] \notin globals.english_vocab
   /\ result.out.value.num > 0

\* The other three components of the penalty of a token, as the code computes them
C2_Others(t) ==
   unknown_word_penalty(globals, t) + letter_confusion_penalty(globals, t)
   + reversal_penalty(t, SentenceTokens)

\* C2 (as stated): the word-confusion component of a token's penalty is 4
\* when the token appears in the word-confusion table and 0 when it appears
\* in no group.
C2_FourForMembers ==
   (Scored /\ WordTokens # << >> /\ SentenceTokens # << >>) =>
      result.out.value.num =
         SumOf([i \in 1..Len(WordTokens) |->
                  C2_Others(WordTokens[i])
                  + (IF GroupsWith(WordTokens[i]) # {} THEN 4 ELSE 0)])

\* C2 (amended): the word-confusion component of a token's penalty is 4 for
\* every group of the table that contains the token: 0 for a token in no
\* group, 4 for a token in one group, 8 for a token in two groups.
C2_FourPerGroup ==
   (Scored /\ WordTokens # << >> /\ SentenceTokens # << >>) =>
      result.out.value.num =
         SumOf([i \in 1..Len(WordTokens) |->
                  C2_Others(WordTokens[i]) + 4 * Cardinality(GroupsWith(WordTokens[i]))])

\* A scored response with a token in two groups ("there") and one in one group ("was")
C2_Witness ==
   /\ Scored
   /\ SentenceTokens # << >>
   /\ \E i \in 1..Len(WordTokens) : Cardinality(GroupsWith(WordTokens[i])) = 2
   /\ \E i \in 1..Len(WordTokens) : Cardinality(GroupsWith(WordTokens[i])) = 1

C3_Others(t) ==
   unknown_word_penalty(globals, t) + letter_confusion_penalty(globals, t)
   + word_confusion_penalty(globals, t)

\* C3: the reversal penalty of 3 is added to a response token exactly when
\* the reversed token equals the first token of the reference; a later
\* reference token that equals the reversed token adds nothing.
C3_ReversalAgainstFirstToken ==
   (Scored /\ WordTokens # << >> /\ SentenceTokens # << >>) =>
      result.out.value.num =
         SumOf([i \in 1..Len(WordTokens) |->
                  C3_Others(WordTokens[i])
                  + (IF IsReverseOf(WordTokens[i], SentenceTokens[1]) THEN 3 ELSE 0)])

\* "tac" scored against "mat cat": the reversed token is the second
\* reference token, and the score has no reversal component
C3_Witness ==
   /\ Scored
   /\ WordTokens = << <<"t", "a", "c">> >>
   /\ SentenceTokens = << <<"m", "a", "t">>, <<"c", "a", "t">> >>
   /\ result.out.value.num = C3_Others(WordTokens[1])

\* C4: the score of k copies of a token equals the score of one copy.
C4_ScalingInvariance ==
   (/\ Scored
    /\ WordTokens # << >>
    /\ SentenceTokens # << >>
    /\ \A i \in 1..Len(WordTokens) : WordTokens[i] = WordTokens[1]) =>
      RatEq(result.out.value,
            calculate_word_dyslexia_score(WordTokens[1], request.sentence).value)

\* Three copies of a token with a positive penalty
C4_Witness ==
   /\ Scored
   /\ Len(WordTokens) = 3
   /\ SentenceTokens # << >>
   /\ \A i \in 1..3 : WordTokens[i] = WordTokens[1]
   /\ result.out.value.num > 0

IsLowerAlnum(w) ==
   /\ Len(w) > 0
   /\ \A k \in 1..Len(w) : w[k] \in LowerLetters \cup Digits

RECURSIVE Concat(_)
Concat(words) == IF words = << >> THEN << >> ELSE Head(words) \o Concat(Tail(words))

\* C10 (as stated): the tokenizer returns without raising, every token is
\* lowercase and purely alphanumeric on the normal and on the fallback
\* path, and empty input yields the empty sequence.
C10_TokensAlphanumeric ==
   Tokenized =>
      /\ ~result.out.raised
      /\ \A i \in 1..Len(result.out.value) : IsLowerAlnum(result.out.value[i])
      /\ request.userText = << >> => result.out.value = << >>

\* C10 (amended): the tokenizer returns without raising and empty input
\* yields the empty sequence; on the normal path every token is lowercase
\* and purely alphanumeric; on the fallback path the tokens are the
\* non-empty blank-separated pieces of the lower-cased text, which have no
\* upper-case letter and no blank but may contain punctuation.
C10_TokensByPath ==
   Tokenized =>
      /\ ~result.out.raised
      /\ request.userText = << >> => result.out.value = << >>
      /\ punkt_loaded =>
            \A i \in 1..Len(result.out.value) : IsLowerAlnum(result.out.value[i])
      /\ ~punkt_loaded =>
            /\ \A i \in 1..Len(result.out.value) :
                  /\ result.out.value[i] # << >>
                  /\ \A k \in 1..Len(result.out.value[i]) :
                        result.out.value[i][k] \notin UpperLetters \cup Whitespace
            /\ Concat(result.out.value)
                  = SelectSeq(str_lower(request.userText), LAMBDA ch : ch \notin Whitespace)

\* The fallback path returning a token that carries punctuation
C10_Witness ==
   /\ Tokenized
   /\ ~punkt_loaded
   /\ \E i \in 1..Len(result.out.value) :
         \E k \in 1..Len(result.out.value[i]) : result.out.value[i][k] \in Punctuation
   /\ \E i \in 1..Len(result.out.value) : IsLowerAlnum(result.out.value[i])

-----------------------------------------------------------------------------
(* Properties of the server (under Spec)                                   *)

Answered(route) == request.route = route /\ response.status # 0

\* The request's JSON body could be read
Parsed == fault # "request_json"

\* What the scorer is called with
UserText == str_strip(request.userText)
ReferenceSentence == str_strip(request.sentence)

AllNumbers(scores) == \A i \in 1..Len(scores) : scores[i].kind = "number"

\* The sum of a list of whole-number scores
Total(scores) == SumOf([i \in 1..Len(scores) |-> scores[i].num])

\* C5: with non-empty responses and non-empty numeric scores, avgScore is
\* sum(scores)/count(scores) and the verdict is the positive one exactly
\* when avgScore >= 3.5 (a mean of exactly 3.5 is positive); with empty
\* responses or scores the answer is the error "Insufficient data", with no
\* mean and no verdict.
C5_MeanAndVerdict ==
   (Answered("generate_report") /\ Parsed) =>
      IF request.responses = << >> \/ request.scores = << >>
      THEN response = HttpResponse(200, ErrorBody("Insufficient data"))
      ELSE AllNumbers(request.scores) =>
              /\ fault = "none" => (response.status = 200 /\ "avgScore" \in DOMAIN response.body)
              /\ "avgScore" \in DOMAIN response.body =>
                    /\ response.body.avgScore.den > 0
                    /\ response.body.avgScore.num * Len(request.scores)
                          = Total(request.scores) * response.body.avgScore.den
                    /\ response.body.verdict \in {Positive, Negative}
                    /\ response.body.verdict = Positive
                          <=> 10 * Total(request.scores) >= 35 * Len(request.scores)

\* Scores [2.0, 5.0]: the mean is exactly 3.5 and the verdict is positive
C5_Witness ==
   /\ Answered("generate_report")
   /\ request.scores = << Number(2), Number(5) >>
   /\ response.status = 200
   /\ "verdict" \in DOMAIN response.body
   /\ response.body.verdict = Positive

\* C6: no report is produced from, and no mean or verdict is computed over,
\* more than MAX_ATTEMPTS attempts.
C6_AtMostMaxAttempts ==
   (Answered("generate_report") /\ "avgScore" \in DOMAIN response.body) =>
      /\ Len(request.scores) <= MAX_ATTEMPTS
      /\ Len(request.responses) <= MAX_ATTEMPTS

\* C7: when a step of calculate_word_dyslexia_score raises, the function
\* returns 0 and analyze_response answers 200 with score 0 and isValid true.
C7_ScoringFailureGivesZero ==
   (/\ Answered("analyze_response")
    /\ fault \in ScoringFaults
    /\ UserText # << >>
    /\ ReferenceSentence # << >>) =>
      /\ response.status = 200
      /\ DOMAIN response.body = {"score", "isValid"}
      /\ response.body.score.num = 0
      /\ response.body.isValid = TRUE

\* The division raising for a response and a reference that both have tokens
C7_Witness ==
   /\ Answered("analyze_response")
   /\ fault = "division"
   /\ tokenize_and_clean_text(UserText).value # << >>
   /\ tokenize_and_clean_text(ReferenceSentence).value # << >>
   /\ response.status = 200

\* The request reaches generate_pdf_report
Renders ==
   /\ Parsed
   /\ request.responses # << >>
   /\ request.scores # << >>
   /\ AllNumbers(request.scores)

\* C8: when rendering fails at any step, generate_report answers 500 with
\* an error body that has no pdfPath, avgScore or verdict; a pdfPath is
\* returned only after the document was saved completely.
C8_RenderingFailureIsReported ==
   Answered("generate_report") =>
      /\ (Renders /\ fault \in RenderFaults) =>
            /\ response.status = 500
            /\ DOMAIN response.body = {"error"}
      /\ "pdfPath" \in DOMAIN response.body =>
            /\ response.status = 200
            /\ fault \notin RenderFaults
            /\ response.body.pdfPath \in Paths
            /\ reports[response.body.pdfPath] = "complete"

\* The save failing half-way: a partial file is on disk and the answer is 500
C8_Witness ==
   /\ Answered("generate_report")
   /\ Renders
   /\ fault = "save_write"
   /\ response.status = 500
   /\ \E p \in Paths : reports[p] = "partial"

====
